---- MODULE Spec2Model ----
(***************************************************************************)
(* A model of DependencyAnalysisService (src/service.ts): the module       *)
(* resolver, the declaration extractor, the memoized graph builder, the    *)
(* symbol provenance tracer and the query engine.                          *)
(*                                                                         *)
(* A path is a record [segs, exts]: the directory and file names from the  *)
(* project root, and the extensions appended to the last name, so that     *)
(* "A/index.ts" is [segs |-> <<"A","index">>, exts |-> <<"ts">>].          *)
(* An import specifier is a record [head, segs, exts]: head is "." or ".." *)
(* for a relative specifier, otherwise the first name of the specifier.    *)
(***************************************************************************)
EXTENDS Integers, Sequences, FiniteSets, TLC

VARIABLES disk, indexDirs, queryInputs, depsGraph, exportCache, analyzedFiles,
          extractions, thrown, initPc, initEntry, initVisited, lastQuery

vars == <<disk, indexDirs, queryInputs, depsGraph, exportCache, analyzedFiles,
          extractions, thrown, initPc, initEntry, initVisited, lastQuery>>

\* ------------------------------------------------------------------ bounds

\* Depth of nested analyzeFile calls at which the engine's call stack is
\* exhausted and a RangeError is thrown.
MaxStack == 6

\* The extraction counter of a file saturates here.
MaxCount == 2

\* ------------------------------------------------------------ paths, disk

P(segs, exts) == [segs |-> segs, exts |-> exts]

Sp(head, segs, exts) == [head |-> head, segs |-> segs, exts |-> exts]

Front(s) == SubSeq(s, 1, Len(s) - 1)

RootDir == P(<<>>, <<>>)
DirA == P(<<"A">>, <<>>)
DirB == P(<<"B">>, <<>>)
DirC == P(<<"C">>, <<>>)
DirD == P(<<"D">>, <<>>)

FileA == P(<<"A", "index">>, <<"ts">>)
FileB == P(<<"B", "index">>, <<"tsx">>)
FileC == P(<<"C", "index">>, <<"ts">>)
FileD == P(<<"D", "index">>, <<"ts">>)
StyleA == P(<<"A", "a">>, <<"css">>)
StyleD == P(<<"D", "d">>, <<"css">>)
GenCss == P(<<"A", "gen">>, <<"css">>)
Missing == P(<<"A", "missing">>, <<>>)

CodeFiles == {FileA, FileB, FileC, FileD}

\* path.dirname of a file path
dirname(p) == P(Front(p.segs), <<>>)

\* The files on disk: the source files disk gives a content to, and the
\* style file beside each of them that has one.
isFile(p) ==
    \/ p \in DOMAIN disk
    \/ p = StyleA /\ FileA \in DOMAIN disk
    \/ p = StyleD /\ FileD \in DOMAIN disk

isDirectory(p) ==
    /\ p.exts = <<>>
    /\ \/ p.segs = <<>>
       \/ Len(p.segs) = 1 /\ \E f \in DOMAIN disk : f.segs[1] = p.segs[1]

existsSync(p) == isFile(p) \/ isDirectory(p)

InDir(d, p) == isFile(p) /\ dirname(p) = d

\* fs.readdirSync: the children of a directory, in the order it lists them.
ReadDir(d) ==
    IF d = RootDir THEN SelectSeq(<<DirA, DirB, DirC, DirD>>, isDirectory)
    ELSE SelectSeq(<<StyleA, FileA, FileB, FileC, StyleD, FileD>>,
                   LAMBDA p : InDir(d, p))

\* path.extname: the last extension, "" when there is none.
extname(p) == IF Len(p.exts) = 0 THEN "" ELSE p.exts[Len(p.exts)]

\* filePath + ext
withExt(p, e) == P(p.segs, Append(p.exts, e))

\* path.join(filePath, `index${ext}`)
indexIn(p, e) == P(p.segs \o p.exts \o <<"index">>, <<e>>)

\* path.resolve(dir, importPath) for a relative specifier
pathResolve(dir, spec) ==
    IF spec.head = ".." THEN P(Front(dir.segs) \o spec.segs, spec.exts)
    ELSE P(dir.segs \o spec.segs, spec.exts)

\* The path a non-relative specifier is as a string (returned unchanged).
specAsPath(spec) == P(<<spec.head>> \o spec.segs, spec.exts)

ResolveExtensions == <<"ts", "tsx", "js", "jsx", "mjs", "cjs", "json">>
EntryExtensions == <<"ts", "tsx", "js", "jsx">>
StyleExtensions == <<"css", "scss", "sass", "less", "styl", "stylus">>

SeqRange(s) == {s[i] : i \in 1..Len(s)}

Min(S) == CHOOSE m \in S : \A n \in S : m <= n

NoPath == [ok |-> FALSE, path |-> RootDir]
SomePath(p) == [ok |-> TRUE, path |-> p]

\* InitOptions.PathsMappingOptions: the project root and alias -> relative path.
ProjectRoot == RootDir
Paths == [alias \in {Sp("@lib", <<>>, <<>>)} |-> <<"D">>]

\* The alias table: specifier -> absolute base path.
initPathsMapping(projectBaseDir, pathsMapping) ==
    [alias \in DOMAIN pathsMapping |->
        P(projectBaseDir.segs \o pathsMapping[alias], <<>>)]

PathsMapping == initPathsMapping(ProjectRoot, Paths)

isStyleFile(x) == extname(x) \in SeqRange(StyleExtensions)

isTypeScriptFile(p) == extname(p) \in SeqRange(EntryExtensions)

isRelativeImportPath(spec) == spec.head \in {".", ".."}

\* A classification that takes a specifier for a local one when its first
\* name is a configured alias.
isLocalImportPathPrefix(spec) ==
    \/ isRelativeImportPath(spec)
    \/ Sp(spec.head, <<>>, <<>>) \in DOMAIN PathsMapping

\* A classification that takes every specifier for a local one.
isLocalImportPathAll(spec) == TRUE

isLocalImportPath(spec) ==
    \/ isRelativeImportPath(spec)
    \/ spec \in DOMAIN PathsMapping

resolveFilePath(p) ==
    IF existsSync(p) /\ isFile(p) THEN SomePath(p)
    ELSE LET withE == {i \in 1..Len(ResolveExtensions) :
                          existsSync(withExt(p, ResolveExtensions[i]))}
             index == {i \in 1..Len(ResolveExtensions) :
                          existsSync(indexIn(p, ResolveExtensions[i]))}
         IN IF withE # {} THEN SomePath(withExt(p, ResolveExtensions[Min(withE)]))
            ELSE IF index # {} THEN SomePath(indexIn(p, ResolveExtensions[Min(index)]))
            ELSE NoPath

resolveImportPath(fromFile, spec) ==
    IF isRelativeImportPath(spec)
    THEN LET resolved == pathResolve(dirname(fromFile), spec)
             actual == resolveFilePath(resolved)
         IN IF actual.ok THEN actual.path ELSE resolved
    ELSE IF spec \in DOMAIN PathsMapping
         THEN LET mappedBase == PathsMapping[spec]
                  actual == resolveFilePath(mappedBase)
              IN IF actual.ok THEN actual.path ELSE mappedBase
         ELSE specAsPath(spec)

resolveStylePath(fromFile, spec) ==
    IF isRelativeImportPath(spec)
    THEN LET resolved == pathResolve(dirname(fromFile), spec)
             withE == {i \in 1..Len(StyleExtensions) :
                          LET q == withExt(resolved, StyleExtensions[i])
                          IN existsSync(q) /\ isFile(q)}
         IN IF existsSync(resolved) /\ isFile(resolved) THEN SomePath(resolved)
            ELSE IF extname(resolved) = "" /\ withE # {}
                 THEN SomePath(withExt(resolved, StyleExtensions[Min(withE)]))
                 ELSE SomePath(resolved)
    ELSE IF spec \in DOMAIN PathsMapping
            /\ existsSync(PathsMapping[spec]) /\ isFile(PathsMapping[spec])
         THEN SomePath(PathsMapping[spec])
         ELSE NoPath

findEntryFile(dir) ==
    LET found == {i \in 1..Len(EntryExtensions) :
                     existsSync(indexIn(dir, EntryExtensions[i]))}
    IN IF found # {} THEN SomePath(indexIn(dir, EntryExtensions[Min(found)]))
       ELSE NoPath

\* ------------------------------------------------- syntax tree of a file

\* One declaration of a source file, as the extractor sees it:
\*   kind    which handler of visitNode takes it
\*   spec    the module specifier
\*   clause  an import declaration has an import clause
\*   def     the import clause binds the default export
\*   ns      the named bindings are a namespace import
\*   elems   the elements {orig as name} of a named import or export list,
\*           or the names an exported declaration declares
\*   name    the name of `export * as name`, of a default-exported
\*           identifier or declaration ("" when anonymous)
Stmt(kind, spec, clause, def, ns, elems, name) ==
    [kind |-> kind, spec |-> spec, clause |-> clause, def |-> def, ns |-> ns,
     elems |-> elems, name |-> name]

NoSpec == Sp("", <<>>, <<>>)
El(orig, name) == [orig |-> orig, name |-> name]

ImportNamed(spec, orig) ==
    Stmt("import", spec, TRUE, FALSE, FALSE, {El(orig, orig)}, "")
ImportDefault(spec) == Stmt("import", spec, TRUE, TRUE, FALSE, {}, "")
ImportNamespace(spec) == Stmt("import", spec, TRUE, FALSE, TRUE, {}, "")
ImportSideEffect(spec) == Stmt("import", spec, FALSE, FALSE, FALSE, {}, "")
ImportEquals(spec) == Stmt("importEquals", spec, FALSE, FALSE, FALSE, {}, "")
DynamicImport(spec) == Stmt("dynamicImport", spec, FALSE, FALSE, FALSE, {}, "")
Require(spec) == Stmt("require", spec, FALSE, FALSE, FALSE, {}, "")
ExportFrom(spec, orig, name) ==
    Stmt("exportDeclaration", spec, TRUE, FALSE, FALSE, {El(orig, name)}, "")
ExportStar(spec) == Stmt("exportDeclaration", spec, FALSE, FALSE, FALSE, {}, "")
ExportStarAs(spec, name) ==
    Stmt("exportDeclaration", spec, TRUE, FALSE, TRUE, {}, name)
ExportList(orig, name) ==
    Stmt("exportDeclaration", NoSpec, TRUE, FALSE, FALSE, {El(orig, name)}, "")
ExportAssignment(name) ==
    Stmt("exportAssignment", NoSpec, FALSE, FALSE, FALSE, {}, name)
ExportEquals == Stmt("exportEquals", NoSpec, FALSE, FALSE, FALSE, {}, "")
ExportedDeclaration(name) ==
    Stmt("exportedDeclaration", NoSpec, FALSE, FALSE, FALSE, {El(name, name)}, "")
ExportedDefaultDeclaration(name) ==
    Stmt("exportedDeclaration", NoSpec, FALSE, TRUE, FALSE, {}, name)

\* --------------------------------------------------------------- Result

NoDefault == "<null>"

EmptyResult ==
    [import |-> <<>>, defaultExport |-> NoDefault, commonExport |-> {},
     styleImports |-> {}]

importKeys(res) == {res.import[i].path : i \in 1..Len(res.import)}

importGet(res, path) ==
    LET at == {i \in 1..Len(res.import) : res.import[i].path = path}
    IN IF at = {} THEN {} ELSE res.import[Min(at)].symbols

\* const existing = result.import.get(p) || new Set();
\* symbols.forEach(s => existing.add(s)); result.import.set(p, existing);
importAdd(res, path, symbols) ==
    LET at == {i \in 1..Len(res.import) : res.import[i].path = path}
    IN IF at = {}
       THEN [res EXCEPT !.import = Append(@, [path |-> path, symbols |-> symbols])]
       ELSE [res EXCEPT !.import[Min(at)].symbols = @ \cup symbols]

\* The export surface a namespace-style import pulls in.
exportNames(target) ==
    target.commonExport
        \cup (IF target.defaultExport # NoDefault THEN {"default"} ELSE {})

\* ------------------------------------------------------ the extractor

\* The engine's fields, threaded through the calls that change them.
Engine(g, c, a, x, t) ==
    [depsGraph |-> g, exportCache |-> c, analyzedFiles |-> a,
     extractions |-> x, thrown |-> t]

\* The source a file is parsed from: a style file holds no declaration.
SourceOf(path) == IF path \in DOMAIN disk THEN disk[path] ELSE <<>>

NoResult(E) == [eng |-> E, ok |-> FALSE, res |-> EmptyResult]

RECURSIVE getFileExports(_, _, _)
RECURSIVE analyzeFile(_, _, _)
RECURSIVE visitNode(_, _, _, _, _)
RECURSIVE visitChildren(_, _, _, _, _, _)

addStyleImport(E, res, cur, spec) ==
    LET absoluteStylePath == resolveStylePath(cur, spec)
    IN [eng |-> E,
        res |-> IF absoluteStylePath.ok
                THEN [res EXCEPT !.styleImports = @ \cup {absoluteStylePath.path}]
                ELSE res]

handleImportDeclaration(E, res, cur, node, depth) ==
    IF isStyleFile(node.spec) THEN addStyleImport(E, res, cur, node.spec)
    ELSE IF ~isLocalImportPath(node.spec) THEN [eng |-> E, res |-> res]
    ELSE LET absoluteImportPath == resolveImportPath(cur, node.spec)
             named == (IF node.clause /\ node.def THEN {"default"} ELSE {})
                        \cup (IF node.clause /\ ~node.ns
                              THEN {e.orig : e \in node.elems} ELSE {})
             record(targetExports) ==
                 LET symbols == named \cup (IF targetExports.ok
                                            THEN exportNames(targetExports.res)
                                            ELSE {})
                 IN IF targetExports.eng.thrown
                    THEN [eng |-> targetExports.eng, res |-> res]
                    ELSE [eng |-> targetExports.eng,
                          res |-> IF symbols # {} \/ ~node.clause
                                  THEN importAdd(res, absoluteImportPath, symbols)
                                  ELSE res]
         IN record(IF node.clause /\ node.ns
                   THEN getFileExports(E, absoluteImportPath, depth)
                   ELSE NoResult(E))

\* handleImportEquals, handleDynamicImport and handleRequire share one body.
handleTargetImport(E, res, cur, node, depth) ==
    IF isStyleFile(node.spec) THEN addStyleImport(E, res, cur, node.spec)
    ELSE IF ~isLocalImportPath(node.spec) THEN [eng |-> E, res |-> res]
    ELSE LET absoluteImportPath == resolveImportPath(cur, node.spec)
             record(targetExports) ==
                 LET symbols == IF targetExports.ok
                                THEN exportNames(targetExports.res) ELSE {}
                 IN IF targetExports.eng.thrown
                    THEN [eng |-> targetExports.eng, res |-> res]
                    ELSE [eng |-> targetExports.eng,
                          res |-> IF symbols # {}
                                  THEN importAdd(res, absoluteImportPath, symbols)
                                  ELSE res]
         IN record(getFileExports(E, absoluteImportPath, depth))

handleImportEquals(E, res, cur, node, depth) ==
    handleTargetImport(E, res, cur, node, depth)

handleDynamicImport(E, res, cur, node, depth) ==
    handleTargetImport(E, res, cur, node, depth)

handleRequire(E, res, cur, node, depth) ==
    handleTargetImport(E, res, cur, node, depth)

handleExportDeclaration(E, res, cur, node, depth) ==
    IF node.spec # NoSpec
    THEN IF ~isLocalImportPath(node.spec) THEN [eng |-> E, res |-> res]
         ELSE LET absoluteExportPath == resolveImportPath(cur, node.spec)
                  isNamed == node.clause /\ ~node.ns
                  record(targetExports) ==
                      LET importSymbols ==
                              IF isNamed THEN {e.orig : e \in node.elems}
                              ELSE IF ~targetExports.ok THEN {}
                              ELSE IF node.clause
                                   THEN exportNames(targetExports.res)
                              ELSE targetExports.res.commonExport
                          exportSymbols ==
                              IF isNamed THEN {e.name : e \in node.elems}
                              ELSE IF ~targetExports.ok THEN {}
                              ELSE IF node.clause THEN {node.name}
                              ELSE targetExports.res.commonExport
                          res1 == IF importSymbols # {}
                                  THEN importAdd(res, absoluteExportPath,
                                                 importSymbols)
                                  ELSE res
                      IN IF targetExports.eng.thrown
                         THEN [eng |-> targetExports.eng, res |-> res]
                         ELSE [eng |-> targetExports.eng,
                               res |-> [res1 EXCEPT
                                           !.commonExport = @ \cup exportSymbols]]
              IN record(IF isNamed THEN NoResult(E)
                        ELSE getFileExports(E, absoluteExportPath, depth))
    ELSE IF node.clause /\ ~node.ns
         THEN [eng |-> E,
               res |-> [res EXCEPT !.commonExport =
                                       @ \cup {e.name : e \in node.elems}]]
         ELSE [eng |-> E, res |-> res]

handleExportAssignment(res, node) ==
    IF node.kind = "exportEquals"
    THEN [res EXCEPT !.defaultExport = "module.exports"]
    ELSE [res EXCEPT !.defaultExport =
                         IF node.name # "" THEN node.name ELSE "default"]

handleExportedDeclaration(res, node) ==
    IF node.def
    THEN [res EXCEPT !.defaultExport =
                         IF node.name # "" THEN node.name ELSE "default"]
    ELSE [res EXCEPT !.commonExport = @ \cup {e.name : e \in node.elems}]

visitNode(E, res, cur, node, depth) ==
    IF node.kind = "import" THEN handleImportDeclaration(E, res, cur, node, depth)
    ELSE IF node.kind = "importEquals"
         THEN handleImportEquals(E, res, cur, node, depth)
    ELSE IF node.kind = "dynamicImport"
         THEN handleDynamicImport(E, res, cur, node, depth)
    ELSE IF node.kind = "require" THEN handleRequire(E, res, cur, node, depth)
    ELSE IF node.kind = "exportDeclaration"
         THEN handleExportDeclaration(E, res, cur, node, depth)
    ELSE IF node.kind \in {"exportAssignment", "exportEquals"}
         THEN [eng |-> E, res |-> handleExportAssignment(res, node)]
    ELSE IF node.kind = "exportedDeclaration"
         THEN [eng |-> E, res |-> handleExportedDeclaration(res, node)]
    ELSE [eng |-> E, res |-> res]

\* ts.forEachChild(sourceFile, ...): the declarations in source order. A
\* RangeError thrown under one of them ends the walk.
visitChildren(E, res, cur, nodes, i, depth) ==
    IF i > Len(nodes) THEN [eng |-> E, res |-> res]
    ELSE LET next(r) ==
                 IF r.eng.thrown THEN r
                 ELSE visitChildren(r.eng, r.res, cur, nodes, i + 1, depth)
         IN next(visitNode(E, res, cur, nodes[i], depth))

Saturate(n) == IF n < MaxCount THEN n + 1 ELSE MaxCount

\* depth is the number of analyzeFile calls on the call stack, this one
\* included. readFileSync fails on any path that is no regular file.
analyzeFile(E, absolutePath, depth) ==
    IF depth > MaxStack THEN NoResult([E EXCEPT !.thrown = TRUE])
    ELSE IF ~isFile(absolutePath) THEN NoResult(E)
    ELSE LET E1 == [E EXCEPT !.extractions[absolutePath] = Saturate(@)]
             finish(r) ==
                 IF r.eng.thrown THEN NoResult(r.eng)
                 ELSE [eng |-> [r.eng EXCEPT
                                   !.exportCache = (absolutePath :> r.res) @@ @,
                                   !.analyzedFiles = @ \cup {absolutePath}],
                       ok |-> TRUE, res |-> r.res]
         IN finish(visitChildren(E1, EmptyResult, absolutePath,
                                 SourceOf(absolutePath), 1, depth))

getFileExports(E, filePath, depth) ==
    IF filePath \in DOMAIN E.exportCache
    THEN [eng |-> E, ok |-> TRUE, res |-> E.exportCache[filePath]]
    ELSE IF filePath \in DOMAIN E.depsGraph
    THEN [eng |-> E, ok |-> TRUE, res |-> E.depsGraph[filePath]]
    ELSE LET actualPath == resolveFilePath(filePath)
         IN IF ~actualPath.ok THEN NoResult(E)
            ELSE analyzeFile(E, actualPath.path, depth + 1)

\* ------------------------------------------------------ the graph builder

RECURSIVE analyzeFileRecursive(_, _, _)
RECURSIVE analyzeImports(_, _, _, _)
RECURSIVE analyzeDirectory(_, _, _)
RECURSIVE analyzeEntries(_, _, _, _)
RECURSIVE walkEntries(_, _, _, _)

\* for (const importPath of result.import.keys()) analyzeFileRecursive(..)
analyzeImports(E, visitedFiles, imports, i) ==
    IF i > Len(imports) \/ E.thrown
    THEN [eng |-> E, visited |-> visitedFiles]
    ELSE LET next(r) == analyzeImports(r.eng, r.visited, imports, i + 1)
         IN next(analyzeFileRecursive(E, visitedFiles, imports[i].path))

analyzeFileRecursive(E, visitedFiles, absolutePath) ==
    IF absolutePath \in visitedFiles THEN [eng |-> E, visited |-> visitedFiles]
    ELSE LET visited1 == visitedFiles \cup {absolutePath}
             actualPath == resolveFilePath(absolutePath)
         IN IF ~actualPath.ok THEN [eng |-> E, visited |-> visited1]
            ELSE IF actualPath.path \in DOMAIN E.depsGraph
            THEN analyzeImports(E, visited1,
                                E.depsGraph[actualPath.path].import, 1)
            ELSE LET expand(result) ==
                         IF result.eng.thrown \/ ~result.ok
                         THEN [eng |-> result.eng, visited |-> visited1]
                         ELSE analyzeImports(
                                  [result.eng EXCEPT !.depsGraph =
                                      (actualPath.path :> result.res) @@ @],
                                  visited1, result.res.import, 1)
                 IN expand(analyzeFile(E, actualPath.path, 1))

analyzeEntries(E, visitedFiles, files, i) ==
    IF i > Len(files) \/ E.thrown
    THEN [eng |-> E, visited |-> visitedFiles]
    ELSE LET next(r) == analyzeEntries(r.eng, r.visited, files, i + 1)
         IN next(IF isDirectory(files[i])
                 THEN analyzeDirectory(E, visitedFiles, files[i])
                 ELSE IF isFile(files[i]) /\ isTypeScriptFile(files[i])
                 THEN analyzeFileRecursive(E, visitedFiles, files[i])
                 ELSE [eng |-> E, visited |-> visitedFiles])

analyzeDirectory(E, visitedFiles, dirPath) ==
    IF ~existsSync(dirPath) \/ ~isDirectory(dirPath)
    THEN [eng |-> E, visited |-> visitedFiles]
    ELSE analyzeEntries(E, visitedFiles, ReadDir(dirPath), 1)

\* The entries of a directory walked by initDepsGraph, from the j-th on and
\* up to the first await: the one on the walk of the first directory met.
\* A directory below it holds no directory, so that walk meets no await.
\* at is the entry the walk resumes from.
walkEntries(E, visitedFiles, files, j) ==
    IF j > Len(files) \/ E.thrown
    THEN [eng |-> E, visited |-> visitedFiles, at |-> j]
    ELSE IF isDirectory(files[j])
    THEN LET yield(r) == [eng |-> r.eng, visited |-> r.visited, at |-> j + 1]
         IN yield(analyzeDirectory(E, visitedFiles, files[j]))
    ELSE LET next(r) == walkEntries(r.eng, r.visited, files, j + 1)
         IN next(IF isFile(files[j]) /\ isTypeScriptFile(files[j])
                 THEN analyzeFileRecursive(E, visitedFiles, files[j])
                 ELSE [eng |-> E, visited |-> visitedFiles])

\* ---------------------------------------------- the tracer and the query

RECURSIVE traceVisit(_, _, _, _, _)
RECURSIVE traceEdges(_, _, _, _, _, _, _)
RECURSIVE findAllFinalDependencies(_, _, _)
RECURSIVE addSources(_, _, _)
RECURSIVE addSourcesCopy(_, _, _)
RECURSIVE traceSymbols(_, _, _, _)
RECURSIVE traceImports(_, _, _, _)

\* The caller's visited set after a recursive call: the call was handed a
\* copy, new Set(visited), so what it added does not come back.
afterBranchShared(own, handed) == handed

afterBranch(own, handed) == own

\* traceSymbolSource with the sets it works on made visible. visited is the
\* set the call is handed and path the files of the calls above it; the
\* value is [sources, visited, log]: the set returned, the handed set as
\* the call leaves it, and for every call below and including this one the
\* file entered with the visited set and the path it was entered with.
traceVisit(graph, filePath, symbol, visited, path) ==
    LET entry == [file |-> filePath, visited |-> visited, path |-> path]
        visited1 == visited \cup {filePath}
        finish(r) ==
            [sources |-> IF r.found THEN r.sources ELSE {filePath},
             visited |-> r.visited, log |-> r.log \cup {entry}]
    IN IF filePath \in visited
       THEN [sources |-> {}, visited |-> visited, log |-> {entry}]
       ELSE IF filePath \notin DOMAIN graph
       THEN [sources |-> {filePath}, visited |-> visited1, log |-> {entry}]
       ELSE IF ~(IF symbol = "default"
                 THEN graph[filePath].defaultExport # NoDefault
                 ELSE symbol \in graph[filePath].commonExport)
       THEN [sources |-> {}, visited |-> visited1, log |-> {entry}]
       ELSE finish(traceEdges(graph, graph[filePath].import, 1, symbol,
                              visited1, Append(path, filePath),
                              [sources |-> {}, found |-> FALSE, log |-> {}]))

\* The loop of traceSymbolSource over the import edges, in their order.
traceEdges(graph, imports, i, symbol, visited, path, acc) ==
    IF i > Len(imports)
    THEN [sources |-> acc.sources, found |-> acc.found, log |-> acc.log,
          visited |-> visited]
    ELSE IF symbol \notin imports[i].symbols
    THEN traceEdges(graph, imports, i + 1, symbol, visited, path, acc)
    ELSE LET next(r) ==
                 traceEdges(graph, imports, i + 1, symbol,
                            afterBranch(visited, r.visited), path,
                            [sources |-> acc.sources \cup r.sources,
                             found |-> TRUE, log |-> acc.log \cup r.log])
         IN next(traceVisit(graph, imports[i].path, symbol, visited, path))

traceSymbolSource(graph, filePath, symbol, visited) ==
    traceVisit(graph, filePath, symbol, visited, <<>>).sources

\* The two sets a closure computation starts from, and the files whose
\* import ledger it has expanded, in the order it expanded them.
NoDeps == [finalDeps |-> {}, visited |-> {}, expansions |-> <<>>]

\* Origins expanded one after the other, each from the visited set the
\* first one started from.
addSourcesCopy(graph, sources, acc) ==
    IF sources = {} THEN acc
    ELSE LET source == CHOOSE s \in sources : TRUE
             next(acc1) ==
                 addSourcesCopy(graph, sources \ {source},
                                [acc1 EXCEPT !.visited = acc.visited])
         IN next(findAllFinalDependencies(
                     graph, source,
                     [acc EXCEPT !.finalDeps = @ \cup {source}]))

\* Origins that are added to the result and not expanded.
addSourcesFlat(graph, sources, acc) ==
    [acc EXCEPT !.finalDeps = @ \cup sources]

\* acc is [finalDeps, visited, expansions]: the two sets the recursion
\* shares, and the expansions made so far.
addSources(graph, sources, acc) ==
    IF sources = {} THEN acc
    ELSE LET source == CHOOSE s \in sources : TRUE
             acc1 == findAllFinalDependencies(
                         graph, source,
                         [acc EXCEPT !.finalDeps = @ \cup {source}])
         IN addSources(graph, sources \ {source}, acc1)

traceSymbols(graph, importPath, symbols, acc) ==
    IF symbols = {} THEN acc
    ELSE LET symbol == CHOOSE s \in symbols : TRUE
             symbolSources == traceSymbolSource(graph, importPath, symbol, {})
         IN traceSymbols(graph, importPath, symbols \ {symbol},
                         addSources(graph, symbolSources, acc))

traceImports(graph, imports, i, acc) ==
    IF i > Len(imports) THEN acc
    ELSE traceImports(graph, imports, i + 1,
                      traceSymbols(graph, imports[i].path, imports[i].symbols, acc))

findAllFinalDependencies(graph, filePath, acc) ==
    IF filePath \in acc.visited THEN acc
    ELSE LET acc1 == [acc EXCEPT !.visited = @ \cup {filePath}]
         IN IF filePath \notin DOMAIN graph THEN acc1
            ELSE traceImports(graph, graph[filePath].import, 1,
                              [acc1 EXCEPT !.expansions = Append(@, filePath)])

\* The style files of the final dependencies, merged into them.
withStyleDeps(graph, finalDeps) ==
    finalDeps \cup UNION {graph[depFile].styleImports :
                             depFile \in finalDeps \cap DOMAIN graph}

\* A query whose closure walks the graph as it was before the on-demand
\* analysis of the call.
queryStale(E, absFilePath) ==
    LET actualPath == resolveFilePath(absFilePath)
        close(built) ==
            IF built.thrown
            THEN [eng |-> built, status |-> "thrown", result |-> {}]
            ELSE [eng |-> built, status |-> "returned",
                  result |-> withStyleDeps(
                      E.depsGraph,
                      findAllFinalDependencies(
                          E.depsGraph, actualPath.path,
                          NoDeps).finalDeps)]
    IN IF ~actualPath.ok THEN [eng |-> E, status |-> "returned", result |-> {}]
       ELSE close(IF actualPath.path \notin DOMAIN E.depsGraph
                  THEN analyzeFileRecursive(E, {}, actualPath.path).eng
                  ELSE E)

\* A query that builds its graph anew: what earlier calls stored is dropped.
queryRebuild(E, absFilePath) ==
    LET actualPath == resolveFilePath(absFilePath)
        close(built) ==
            IF built.thrown
            THEN [eng |-> built, status |-> "thrown", result |-> {}]
            ELSE [eng |-> built, status |-> "returned",
                  result |-> withStyleDeps(
                      built.depsGraph,
                      findAllFinalDependencies(
                          built.depsGraph, actualPath.path,
                          NoDeps).finalDeps)]
    IN IF ~actualPath.ok THEN [eng |-> E, status |-> "returned", result |-> {}]
       ELSE close(analyzeFileRecursive(
                      [E EXCEPT !.depsGraph = <<>>, !.exportCache = <<>>],
                      {}, actualPath.path).eng)

\* query(absFilePath): [eng, status, result]; status is "returned", or
\* "thrown" when the on-demand analysis ends in a RangeError.
query(E, absFilePath) ==
    LET actualPath == resolveFilePath(absFilePath)
        close(built) ==
            IF built.thrown
            THEN [eng |-> built, status |-> "thrown", result |-> {}]
            ELSE [eng |-> built, status |-> "returned",
                  result |-> withStyleDeps(
                      built.depsGraph,
                      findAllFinalDependencies(
                          built.depsGraph, actualPath.path,
                          NoDeps).finalDeps)]
    IN IF ~actualPath.ok THEN [eng |-> E, status |-> "returned", result |-> {}]
       ELSE close(IF actualPath.path \notin DOMAIN E.depsGraph
                  THEN analyzeFileRecursive(E, {}, actualPath.path).eng
                  ELSE E)

\* ------------------------------------------------------------- the inputs

\* The specifier by which a file names the directory of another file.
To(dir) == Sp("..", <<dir>>, <<>>)

\* The declarations a pool offers, each with the file it may appear in.
In(file, node) == [file |-> file, node |-> node]

\* The specifier by which a file names a file of its own directory.
Here(name, exts) == Sp(".", <<name>>, exts)

\* Two files that import from each other.
PoolCycle ==
    << In(FileA, ExportedDeclaration("x")),
       In(FileA, ImportNamed(To("B"), "y")),
       In(FileA, ImportNamespace(To("B"))),
       In(FileA, ExportFrom(To("B"), "default", "default")),
       In(FileA, ExportStar(To("B"))),
       In(FileB, ExportAssignment("")),
       In(FileB, ExportFrom(To("A"), "x", "y")),
       In(FileB, ExportFrom(To("A"), "x", "x")),
       In(FileB, Require(To("A"))) >>

\* A imports from the barrel C, which forwards D; B imports itself.
PoolBarrel ==
    << In(FileA, ImportNamed(To("B"), "y")),
       In(FileA, ImportNamed(To("C"), "x")),
       In(FileA, ImportSideEffect(Here("a", <<"css">>))),
       In(FileB, ImportNamespace(Here("index", <<>>))),
       In(FileC, ExportStar(To("D"))),
       In(FileC, ExportedDeclaration("y")),
       In(FileD, ExportedDeclaration("x")),
       In(FileD, ImportSideEffect(Here("d", <<"css">>))),
       In(FileD, ImportNamed(To("C"), "x")) >>

\* A takes everything from B and from C, which both forward D; B and A
\* forward a name to each other.
PoolDiamond ==
    << In(FileA, ExportStar(To("C"))),
       In(FileA, ExportStar(To("B"))),
       In(FileA, ExportStar(To("C"))),
       In(FileB, ExportFrom(To("D"), "x", "x")),
       In(FileB, ExportFrom(To("A"), "y", "y")),
       In(FileC, ExportStar(To("D"))),
       In(FileC, ImportNamed(To("A"), "x")),
       In(FileD, ExportedDeclaration("x")) >>

\* A imports D for its side effects only; D imports a style file, B and
\* itself; C forwards a name of D as its default export.
PoolSideEffect ==
    << In(FileA, ImportSideEffect(To("D"))),
       In(FileA, ImportNamed(To("D"), "x")),
       In(FileA, ImportDefault(To("C"))),
       In(FileB, ExportedDeclaration("x")),
       In(FileC, ExportFrom(To("D"), "x", "default")),
       In(FileD, ExportedDeclaration("x")),
       In(FileD, ImportSideEffect(Here("d", <<"css">>))),
       In(FileD, ImportNamed(To("B"), "x")),
       In(FileD, ImportNamespace(Here("index", <<>>))) >>

\* Specifiers of every class: missing, external, aliased, style.
PoolResolve ==
    << In(FileA, ImportNamed(Here("missing", <<>>), "x")),
       In(FileA, ImportNamed(Sp("react", <<>>, <<>>), "x")),
       In(FileA, ImportNamed(Sp("@lib", <<>>, <<>>), "x")),
       In(FileA, ImportNamespace(Sp("@lib", <<"sub">>, <<>>))),
       In(FileA, ImportNamed(Sp("@lib", <<"index">>, <<>>), "x")),
       In(FileA, ExportFrom(Here("a", <<"css">>), "x", "x")),
       In(FileA, ExportStar(Here("a", <<"css">>))),
       In(FileA, ImportSideEffect(Here("gen", <<"css">>))),
       In(FileD, ExportFrom(Sp("..", <<"A", "gen">>, <<"css">>), "x", "x")),
       In(FileD, ExportedDeclaration("x")) >>

\* The k-th smallest element of a set of numbers.
Nth(S, k) == CHOOSE i \in S : Cardinality({j \in S : j < i}) = k - 1

\* The disk on which each file holds the chosen declarations of the pool,
\* in the order of the pool.
DiskOf(pool, files, chosen) ==
    [f \in files |->
        LET mine == {i \in chosen : pool[i].file = f}
        IN [k \in 1..Cardinality(mine) |-> pool[Nth(mine, k)].node]]

\* The worlds of a pool: every choice of its declarations, with the
\* indexDirs the engine is constructed with and the paths it is queried for.
WorldsOf(pool, files, dirs, queries) ==
    {[disk |-> DiskOf(pool, files, chosen), indexDirs |-> dirs,
      queries |-> queries] : chosen \in SUBSET (1..Len(pool))}

Worlds ==
    WorldsOf(PoolCycle, {FileA, FileB}, <<DirA>>, {FileA, DirB})
        \cup WorldsOf(PoolBarrel, CodeFiles, <<DirC, RootDir>>, {FileA, FileD})
        \cup WorldsOf(PoolResolve, {FileA, FileD}, <<DirD>>,
                      {FileA, StyleA, Missing})
        \cup WorldsOf(PoolDiamond, CodeFiles, <<DirD>>, {FileA, FileC})
        \cup WorldsOf(PoolSideEffect, CodeFiles, <<DirB>>, {FileA, FileD})

\* ------------------------------------------------------------ the actions

\* What the most recent call returned, when it was a query: the path asked
\* for, how the call ended, the set returned, and whether the call before
\* it was a query of the same path that returned, with the set it returned.
NoQuery ==
    [file |-> RootDir, status |-> "none", result |-> {}, again |-> FALSE,
     before |-> {}]

Init ==
    /\ \E w \in Worlds : /\ disk = w.disk
                         /\ indexDirs = w.indexDirs
                         /\ queryInputs = w.queries
    /\ depsGraph = <<>>
    /\ exportCache = <<>>
    /\ analyzedFiles = {}
    /\ extractions = [f \in CodeFiles \cup {StyleA, StyleD} |-> 0]
    /\ thrown = FALSE
    /\ initPc = 0
    /\ initEntry = 0
    /\ initVisited = {}
    /\ lastQuery = NoQuery

Current == Engine(depsGraph, exportCache, analyzedFiles, extractions, FALSE)

Install(E) ==
    /\ depsGraph' = E.depsGraph
    /\ exportCache' = E.exportCache
    /\ analyzedFiles' = E.analyzedFiles
    /\ extractions' = E.extractions
    /\ thrown' = (thrown \/ E.thrown)

\* The pending initDepsGraph() stops at an await: after a RangeError the
\* promise is rejected; after the last entry of the directory of turn i the
\* loop goes on to turn i + 1; otherwise the walk resumes at entry r.at.
Yield(r, i, files) ==
    /\ Install(r.eng)
    /\ initPc' = IF r.eng.thrown THEN 0
                 ELSE IF r.at > Len(files) THEN i + 1 ELSE i
    /\ initEntry' = IF r.eng.thrown \/ r.at > Len(files) THEN 0 ELSE r.at
    /\ initVisited' = IF r.eng.thrown THEN {} ELSE r.visited

\* Turn i of the loop of initDepsGraph, up to its first await.
InitTurn(visitedFiles, i) ==
    LET dir == indexDirs[i]
        entryFile == findEntryFile(dir)
    IN IF entryFile.ok
       THEN \E r \in {analyzeFileRecursive(Current, visitedFiles,
                                           entryFile.path)} :
               Yield([eng |-> r.eng, visited |-> r.visited, at |-> 1], i, <<>>)
       ELSE IF ~existsSync(dir) \/ ~isDirectory(dir)
       THEN Yield([eng |-> Current, visited |-> visitedFiles, at |-> 1], i, <<>>)
       ELSE \E r \in {walkEntries(Current, visitedFiles, ReadDir(dir), 1)} :
               Yield(r, i, ReadDir(dir))

\* A call of initDepsGraph() runs to the first await.
InitDepsGraph ==
    /\ initPc = 0
    /\ IF Len(indexDirs) = 0
       THEN UNCHANGED <<depsGraph, exportCache, analyzedFiles, extractions,
                        thrown, initPc, initEntry, initVisited>>
       ELSE InitTurn({}, 1)
    /\ lastQuery' = NoQuery
    /\ UNCHANGED <<disk, indexDirs, queryInputs>>

\* The pending initDepsGraph() resumes after an await, and runs to the next.
InitResume ==
    /\ initPc > 0
    /\ IF initEntry > 0
       THEN \E r \in {walkEntries(Current, initVisited,
                                  ReadDir(indexDirs[initPc]), initEntry)} :
               Yield(r, initPc, ReadDir(indexDirs[initPc]))
       ELSE IF initPc > Len(indexDirs)
       THEN /\ initPc' = 0
            /\ initVisited' = {}
            /\ UNCHANGED <<depsGraph, exportCache, analyzedFiles, extractions,
                           thrown, initEntry>>
       ELSE InitTurn(initVisited, initPc)
    /\ lastQuery' = NoQuery
    /\ UNCHANGED <<disk, indexDirs, queryInputs>>

Query(absFilePath) ==
    \E r \in {query(Current, absFilePath)} :
       /\ Install(r.eng)
       /\ lastQuery' =
              LET again == lastQuery.status = "returned"
                             /\ lastQuery.file = absFilePath
              IN [file |-> absFilePath, status |-> r.status,
                  result |-> r.result, again |-> again,
                  before |-> IF again THEN lastQuery.result ELSE {}]
       /\ UNCHANGED <<disk, indexDirs, queryInputs, initPc, initEntry,
                      initVisited>>

Next ==
    \/ InitDepsGraph
    \/ InitResume
    \/ \E absFilePath \in queryInputs : Query(absFilePath)

Spec == Init /\ [][Next]_vars

\* ------------------------------------------------------------- the claims

\* The most recent call was a query of a file that exists, and it returned.
Returned == lastQuery.status = "returned" /\ resolveFilePath(lastQuery.file).ok

\* The identity of the file the most recent query asked for.
Queried == resolveFilePath(lastQuery.file).path

\* The declarations of a file on disk.
NodesOf(f) == SeqRange(SourceOf(f))

\* File f holds a declaration whose specifier names file g.
Imports(f, g) ==
    \E n \in NodesOf(f) :
        /\ n.spec # NoSpec
        /\ isLocalImportPath(n.spec)
        /\ resolveImportPath(f, n.spec) = g

\* C1: the set query(F) returns never holds F's own identity.
C1_QueryExcludesSelf == Returned => Queried \notin lastQuery.result

\* C2: each file is read and extracted at most once in the engine's life.
C2_ExtractedAtMostOnce == \A f \in DOMAIN extractions : extractions[f] <= 1

\* C3: no commonExport set of the graph holds the sentinel "default".
C3_NoDefaultInCommonExport ==
    \A f \in DOMAIN depsGraph : "default" \notin depsGraph[f].commonExport

\* C4: when two files import from each other, graph construction and
\* tracing end normally from either of them: no call ends in a RangeError.
C4_MutualImportTerminates ==
    (\E f, g \in DOMAIN disk : f # g /\ Imports(f, g) /\ Imports(g, f))
        => ~thrown

\* C5: of two consecutive calls query(F) that return, the second returns
\* the set the first returned.
C5_QueryIdempotent ==
    (lastQuery.again /\ lastQuery.status = "returned")
        => lastQuery.result = lastQuery.before

\* C5 happens: a file with dependencies was queried twice in a row.
C5_Witness ==
    /\ Returned
    /\ lastQuery.again
    /\ lastQuery.result # {}
    /\ extractions[Queried] > 0

Symbols == {"x", "y", "default"}

\* File f holds `export { s } from g`, the name s on both sides.
ReexportsVerbatim(f, g, s) ==
    \E n \in NodesOf(f) :
        /\ n.kind = "exportDeclaration" /\ n.spec # NoSpec
        /\ n.clause /\ ~n.ns /\ El(s, s) \in n.elems
        /\ resolveImportPath(f, n.spec) = g

\* File f holds a declaration that exports s: an exported declaration of
\* that name, or for "default" a default export.
Declares(f, s) ==
    \E n \in NodesOf(f) :
        IF s = "default"
        THEN \/ n.kind \in {"exportAssignment", "exportEquals"}
             \/ n.kind = "exportedDeclaration" /\ n.def
        ELSE n.kind = "exportedDeclaration" /\ ~n.def /\ El(s, s) \in n.elems

\* No import edge of the Result of f carries s.
NoEdgeCarries(f, s) ==
    \A i \in 1..Len(depsGraph[f].import) : s \notin depsGraph[f].import[i].symbols

\* C6: when A re-exports S verbatim from B and B declares S directly, the
\* tracer gives {B} for S from A and from B.
C6_VerbatimReexportTraced ==
    \A f, g \in DOMAIN depsGraph : \A s \in Symbols :
        (f # g /\ ReexportsVerbatim(f, g, s) /\ Declares(g, s)
             /\ NoEdgeCarries(g, s))
            => /\ traceSymbolSource(depsGraph, f, s, {}) = {g}
               /\ traceSymbolSource(depsGraph, g, s, {}) = {g}

\* A imports s from C, the only content of C is `export * from D`, and D
\* declares s and takes it from no other file.
BarrelCase(a, c, d, s) ==
    /\ a # c /\ c # d /\ a # d
    /\ \E n \in NodesOf(a) :
           /\ n.kind = "import" /\ n.clause /\ ~n.ns /\ El(s, s) \in n.elems
           /\ resolveImportPath(a, n.spec) = c
    /\ Len(SourceOf(c)) = 1
    /\ LET n == SourceOf(c)[1]
       IN /\ n.kind = "exportDeclaration" /\ n.spec # NoSpec /\ ~n.clause
          /\ resolveImportPath(c, n.spec) = d
    /\ Declares(d, s)
    /\ \A n \in NodesOf(d) :
           n.spec = NoSpec \/ \A e \in n.elems : e.orig # s /\ e.name # s

\* C7: in the barrel case query(A) holds D and does not hold C.
C7_BarrelPassThrough ==
    \A c, d \in DOMAIN disk : \A s \in Symbols :
        (Returned /\ BarrelCase(Queried, c, d, s))
            => (d \in lastQuery.result /\ c \notin lastQuery.result)

\* C8: query(A) holds the style imports of every graph file in it, and
\* holds a style import of A itself only if A is in its own result or
\* another file of the result imports that style too.
C8_StyleAsymmetry ==
    (Returned /\ Queried \in DOMAIN depsGraph) =>
        /\ \A g \in lastQuery.result \cap DOMAIN depsGraph :
               depsGraph[g].styleImports \subseteq lastQuery.result
        /\ \A st \in depsGraph[Queried].styleImports \cap lastQuery.result :
               \/ Queried \in lastQuery.result
               \/ \E g \in (lastQuery.result \cap DOMAIN depsGraph) \ {Queried} :
                      st \in depsGraph[g].styleImports

\* The path a local specifier of file f names before any extension or
\* index file is tried.
CandidateBase(f, spec) ==
    IF spec.head \in {".", ".."} THEN pathResolve(dirname(f), spec)
    ELSE P(ProjectRoot.segs \o Paths[spec], <<>>)

\* The specifiers of file f that are relative or equal to an alias.
LocalSpecs(f) ==
    {n.spec : n \in {m \in NodesOf(f) :
                        m.spec.head \in {".", ".."} \/ m.spec \in DOMAIN Paths}}

C10_NoStyleInGraph == \A f \in DOMAIN depsGraph : ~isStyleFile(f)

\* C11: in every step a key of the dependency graph stays a key, and the
\* Result stored under it stays the same.
C11_GraphAppendOnly ==
    [][\A f \in DOMAIN depsGraph :
           f \in DOMAIN depsGraph' /\ depsGraph'[f] = depsGraph[f]]_vars

\* C11 happens: a query added the file it asked for to a graph that held
\* files stored by a pending initDepsGraph().
C11_Witness ==
    /\ Returned
    /\ initPc > 0
    /\ Queried \in DOMAIN depsGraph
    /\ Queried \notin initVisited
    /\ \E f \in initVisited : f \in DOMAIN depsGraph

\* The alias a specifier begins with.
AliasOf(spec) == Sp(spec.head, <<>>, <<>>)

\* The path an alias specifier names by alias base + remainder, with the
\* candidate order of the resolver applied.
AliasTarget(spec) ==
    LET base == P(PathsMapping[AliasOf(spec)].segs \o spec.segs, spec.exts)
    IN IF resolveFilePath(base).ok THEN resolveFilePath(base).path ELSE base

\* The named imports of file f whose specifier begins with an alias.
AliasImports(f) ==
    {n \in NodesOf(f) :
        /\ n.kind = "import" /\ n.clause /\ ~n.ns /\ n.elems # {}
        /\ AliasOf(n.spec) \in DOMAIN PathsMapping}

\* C12 as stated: a named import by an alias, or by an alias followed by a
\* sub-path, is recorded under alias base + remainder.
C12_AliasWithRemainder ==
    \A f \in DOMAIN depsGraph : \A n \in AliasImports(f) :
        AliasTarget(n.spec) \in importKeys(depsGraph[f])

\* C12 amended: a named import by a specifier equal to an alias is recorded
\* under the path the resolver finds for the alias base; one by an alias
\* followed by a sub-path is external and records nothing.
C12_AliasExactOnly ==
    \A f \in DOMAIN depsGraph : \A n \in AliasImports(f) :
        IF n.spec.segs = <<>> /\ n.spec.exts = <<>>
        THEN /\ AliasTarget(n.spec) \in importKeys(depsGraph[f])
             /\ {e.orig : e \in n.elems}
                    \subseteq importGet(depsGraph[f], AliasTarget(n.spec))
        ELSE /\ specAsPath(n.spec) \notin importKeys(depsGraph[f])
             /\ AliasTarget(n.spec) \in importKeys(depsGraph[f])
                    => \E m \in NodesOf(f) :
                           /\ m.spec # NoSpec /\ ~isStyleFile(m.spec)
                           /\ m.spec \in LocalSpecs(f)
                           /\ resolveImportPath(f, m.spec) = AliasTarget(n.spec)

\* C12 happens: a file of the graph imports by the alias and another (or
\* the same) by the alias followed by a sub-path that names a file.
C12_Witness ==
    \E f \in DOMAIN depsGraph :
        /\ \E n \in AliasImports(f) : n.spec.segs = <<>>
        /\ \E n \in AliasImports(f) : n.spec.segs # <<>> /\ isFile(AliasTarget(n.spec))

\* The origins the tracer gives for the (edge, symbol) pairs of the import
\* ledger of graph file g.
OriginsOf(g) ==
    UNION {UNION {traceSymbolSource(depsGraph, depsGraph[g].import[i].path,
                                    s, {}) :
                     s \in depsGraph[g].import[i].symbols} :
              i \in 1..Len(depsGraph[g].import)}

\* C13: the set query(F) returns holds every origin of the ledger of F and
\* of every graph file in it.
C13_FullClosure ==
    Returned =>
        \A g \in ({Queried} \cup lastQuery.result) \cap DOMAIN depsGraph :
            OriginsOf(g) \subseteq lastQuery.result

\* C13 happens: a file of the result other than the one asked for has
\* origins of its own, the file asked for among them (an import cycle).
C13_Witness ==
    /\ Returned
    /\ \E g \in (lastQuery.result \cap DOMAIN depsGraph) \ {Queried} :
           Queried \in OriginsOf(g)

\* File f holds `export * from g`.
ReexportsAll(f, g) ==
    \E n \in NodesOf(f) :
        /\ n.kind = "exportDeclaration" /\ n.spec # NoSpec /\ ~n.clause
        /\ resolveImportPath(f, n.spec) = g

\* A re-exports the named symbol s from both b and c by `export *` (the
\* one form that lets a module take one name from two modules), b and c
\* each re-export s from d, and d declares s and takes it from no file.
DiamondCase(a, b, c, d, s) ==
    /\ Cardinality({a, b, c, d}) = 4
    /\ {a, b, c, d} \subseteq DOMAIN depsGraph
    /\ s # "default"
    /\ ReexportsAll(a, b) /\ ReexportsAll(a, c)
    /\ ReexportsVerbatim(b, d, s) \/ ReexportsAll(b, d)
    /\ ReexportsVerbatim(c, d, s) \/ ReexportsAll(c, d)
    /\ Declares(d, s)
    /\ NoEdgeCarries(d, s)

\* C14: every file the tracer enters is entered with exactly the files of
\* its recursion path as visited, whatever file and symbol the trace
\* starts from; and in the diamond case the symbol traces to {D}.
C14_PathVisited ==
    /\ \A f \in DOMAIN depsGraph : \A s \in Symbols :
           \A e \in traceVisit(depsGraph, f, s, {}, <<>>).log :
               e.visited = SeqRange(e.path)
    /\ \A a, b, c, d \in DOMAIN depsGraph : \A s \in Symbols :
           DiamondCase(a, b, c, d, s)
               => traceSymbolSource(depsGraph, a, s, {}) = {d}

\* C14 happens: the graph holds a diamond, the second branch of which
\* enters D again, and a trace in it is cut off at a file on its own path.
C14_Witness ==
    /\ \E a, b, c, d \in DOMAIN depsGraph : \E s \in Symbols :
           /\ DiamondCase(a, b, c, d, s)
           /\ Cardinality({e \in traceVisit(depsGraph, a, s, {}, <<>>).log :
                               e.file = d}) = 2
    /\ \E f \in DOMAIN depsGraph : \E s \in Symbols :
           \E e \in traceVisit(depsGraph, f, s, {}, <<>>).log :
               e.file \in SeqRange(e.path)

\* The files expanded by the closure computation of the query that has
\* just returned, in the order of their expansion.
Expansions == findAllFinalDependencies(depsGraph, Queried, NoDeps).expansions

\* The (edge, symbol) pairs of the ledger of graph file f that the tracer
\* gives origin g for.
PairsTracedTo(f, g) ==
    {p \in (1..Len(depsGraph[f].import)) \X Symbols :
        /\ p[2] \in depsGraph[f].import[p[1]].symbols
        /\ g \in traceSymbolSource(depsGraph, depsGraph[f].import[p[1]].path,
                                    p[2], {})}

\* C15: in one query no file is expanded twice.
C15_ExpandedOnce ==
    (Returned /\ Queried \in DOMAIN depsGraph) =>
        \A i, j \in 1..Len(Expansions) :
            i # j => Expansions[i] # Expansions[j]

\* C15 happens: the query met a graph file as an origin twice, and met the
\* file it asked for again as an origin.
C15_Witness ==
    /\ Returned
    /\ Queried \in DOMAIN depsGraph
    /\ \E g \in DOMAIN depsGraph :
           g # Queried /\ Cardinality(PairsTracedTo(Queried, g)) >= 2
    /\ \E g \in lastQuery.result \cap DOMAIN depsGraph :
           PairsTracedTo(g, Queried) # {}

\* C16: a namespace import of a local target X adds an import-ledger entry
\* for X whose symbol set holds "*".
C16_NamespaceStar ==
    \A f \in DOMAIN depsGraph : \A n \in NodesOf(f) :
        (/\ n.kind = "import" /\ n.clause /\ n.ns
         /\ ~isStyleFile(n.spec) /\ n.spec \in LocalSpecs(f))
            => /\ resolveImportPath(f, n.spec) \in importKeys(depsGraph[f])
               /\ "*" \in importGet(depsGraph[f], resolveImportPath(f, n.spec))

\* File f holds `export { a as b } from X` where X is a local module that is
\* not a style file.
RenamesFrom(f, a, b) ==
    \E n \in NodesOf(f) :
        /\ n.kind = "exportDeclaration" /\ n.spec # NoSpec
        /\ n.clause /\ ~n.ns /\ El(a, b) \in n.elems
        /\ isLocalImportPath(n.spec)

\* C17: when A holds the renaming re-export `export { a as b } from X`, a
\* different from b, and no import edge of A carries b, the tracer gives {A}
\* for b from A.
C17_RenamedStopsAtForwarder ==
    \A f \in DOMAIN depsGraph : \A a, b \in Symbols :
        (a # b /\ RenamesFrom(f, a, b) /\ NoEdgeCarries(f, b))
            => traceSymbolSource(depsGraph, f, b, {}) = {f}

\* The import edges of f that carry no symbol.
EmptyEdges(f) ==
    {i \in 1..Len(depsGraph[f].import) : depsGraph[f].import[i].symbols = {}}

\* The graph in which the ledger of f has lost its edges without symbols.
WithoutEmptyEdges(graph, f) ==
    [graph EXCEPT ![f].import = SelectSeq(@, LAMBDA e : e.symbols # {})]

\* What a query of f returns over a graph that holds f.
ClosureOf(graph, f) ==
    withStyleDeps(graph, findAllFinalDependencies(graph, f, NoDeps).finalDeps)

\* C18: an import edge of F with an empty symbol set adds nothing to
\* query(F): the query returns what it returns over the graph in which F has
\* no such edge; and a code file G the edge names has its Result in the graph.
C18_EmptyEdgeAddsNothing ==
    (Returned /\ Queried \in DOMAIN depsGraph /\ EmptyEdges(Queried) # {})
        => /\ lastQuery.result =
                  ClosureOf(WithoutEmptyEdges(depsGraph, Queried), Queried)
           /\ \A i \in EmptyEdges(Queried) :
                  isFile(depsGraph[Queried].import[i].path)
                      => depsGraph[Queried].import[i].path \in DOMAIN depsGraph

====
